---- MODULE Spec2Model ----
(***************************************************************************)
(* Model of src/src/OpenSSL.cpp: the OpenSSL thread-safety glue of         *)
(* mediasoup.  The process-wide state is the static mutex table            *)
(* (OpenSSL::mutexes, OpenSSL::numMutexes), the five callbacks registered  *)
(* with the library, and the heap-allocated dynamic locks.  ClassInit and  *)
(* ClassDestroy are modelled statement by statement; the library's worker  *)
(* threads call the registered callbacks.                                  *)
(***************************************************************************)
EXTENDS Integers, Sequences, FiniteSets, TLC

\* ------------------------------------------------------------------ bounds
\* Largest value CRYPTO_num_locks() may return in the model.
MaxLocks == 2
\* Number of library worker threads.
NumThreads == 2
\* Lock/unlock cycles each worker thread performs.
MaxOps == 2
\* Number of CRYPTO_dynlock_value records the library creates in one run.
MaxHandles == 2
\* Number of ClassInit calls in one run (ClassInit; ClassDestroy; ClassInit ...).
MaxCycles == 2

\* --------------------------------------------------------- program constants
CRYPTO_LOCK == 1
CRYPTO_UNLOCK == 2
CRYPTO_READ == 4
CRYPTO_WRITE == 8

Threads == 1..NumThreads
Handles == 1..MaxHandles
CallbackNames == <<"threadid", "locking", "dyncreate", "dynlock", "dyndestroy">>
Callbacks == {CallbackNames[x] : x \in 1..5}

VARIABLES
  pc,            \* position of the main thread in ClassInit / ClassDestroy
  i,             \* loop variable i of ClassInit / ClassDestroy
  k,             \* number of callback (de)registrations done in the current call
  numLocks,      \* what CRYPTO_num_locks() returns for this library build
  mutexes,       \* OpenSSL::mutexes: 0 (nullptr) or the address of the table
  numMutexes,    \* OpenSSL::numMutexes
  heap,          \* set of table addresses currently allocated
  slot,          \* state of each pthread_mutex_t stored at address `mutexes`
  cb,            \* which callbacks are registered with the library
  initError,     \* "none", or why ClassInit threw
  stats,         \* call counts of the primitives, as a test double would keep
  destroyErr,    \* slots whose pthread_mutex_destroy failed in the last ClassDestroy
  cycles,        \* number of ClassInit calls started
  lib,           \* how far the library's global state is set up or cleaned up
  dyn,           \* state of the mutex inside each CRYPTO_dynlock_value
  dynHeap,       \* the CRYPTO_dynlock_value records currently allocated
  owned,         \* the handles the library got from DynCreateFunction and keeps
  dstat,         \* call counts of the dynamic-lock primitives
  idOut,         \* the CRYPTO_THREADID each thread got filled in, 0 if none
  tpc,           \* where each worker thread is
  target,        \* the lock a worker thread is blocked on or holds
  tmp,           \* a worker's private copy of the counter while incrementing
  done,          \* lock/unlock cycles each worker has completed
  counter        \* the shared counter guarded by static slot 0

vars == <<pc, i, k, numLocks, mutexes, numMutexes, heap, slot, cb, initError,
          stats, destroyErr, cycles, lib, dyn, dynHeap, owned, dstat, idOut,
          tpc, target, tmp, done, counter>>

lifeVars == <<pc, i, k, numLocks, mutexes, numMutexes, heap, cb, initError,
              stats, destroyErr, cycles, lib>>
workVars == <<tpc, target, tmp, done, counter, idOut>>
handleVars == <<dynHeap, owned, dstat>>
dynVars == <<dyn, dynHeap, owned, dstat>>

NoLock == [kind |-> "none", id |-> 0]
Static(n) == [kind |-> "static", id |-> n]
Dynamic(h) == [kind |-> "dyn", id |-> h]

\* mode & bit, for a single-bit mask.
BitAnd(mode, bit) == IF (mode \div bit) % 2 = 1 THEN bit ELSE 0

\* The test with the wrong bit of the mode: `mode & CRYPTO_READ`.
IsLockWrongBit(mode) == BitAnd(mode, CRYPTO_READ) # 0

\* The test `mode & CRYPTO_LOCK` of LockingFunction and DynLockFunction.
IsLock(mode) == BitAnd(mode, CRYPTO_LOCK) # 0

\* Calls of new[], delete[] and MS_ERROR, the pthread_mutex_destroy calls that
\* succeeded, and per slot the calls of pthread_mutex_init and
\* pthread_mutex_destroy.
NoStats == [alloc |-> 0, free |-> 0, reported |-> 0,
            init |-> [n \in 0..(MaxLocks - 1) |-> 0],
            destroy |-> [n \in 0..(MaxLocks - 1) |-> 0],
            destroyed |-> 0]

\* Calls of new CRYPTO_dynlock_value, of delete and of pthread_mutex_destroy
\* on a dynamic lock, and the pthread_mutex_destroy calls that succeeded.
NoDynStats == [new |-> 0, delete |-> 0, destroy |-> 0, destroyed |-> 0]

Init ==
  /\ pc = "start"
  /\ i = 0
  /\ k = 0
  /\ numLocks \in 0..MaxLocks
  /\ mutexes = 0
  /\ numMutexes = 0
  /\ heap = {}
  /\ slot = [n \in {} |-> "Uninit"]
  /\ cb = [c \in Callbacks |-> FALSE]
  /\ initError = "none"
  /\ stats = NoStats
  /\ destroyErr = {}
  /\ cycles = 0
  /\ lib = "unloaded"
  /\ dyn = [h \in Handles |-> "None"]
  /\ dynHeap = {}
  /\ owned = << >>
  /\ dstat = NoDynStats
  /\ idOut = [t \in Threads |-> 0]
  /\ tpc = [t \in Threads |-> "idle"]
  /\ target = [t \in Threads |-> NoLock]
  /\ tmp = [t \in Threads |-> 0]
  /\ done = [t \in Threads |-> 0]
  /\ counter = 0


\* ---------------------------------------------------------------- ClassInit
\* MS_ERROR in the place of MS_THROW_ERROR: the error is noted and ClassInit
\* goes on.
ThrowErrorLogOnly(why) ==
  /\ pc' = pc
  /\ initError' = why

\* MS_THROW_ERROR: ClassInit ends by throwing; no later statement runs.
ThrowError(why) ==
  /\ pc' = "failed"
  /\ initError' = why

\* Lines 17-26: entry and library bootstrap (SSL_load_error_strings,
\* SSL_library_init, RAND_poll).
ClassInitBootstrap ==
  /\ pc \in {"start", "destroyed"}
  /\ cycles < MaxCycles
  /\ pc' = "alloc"
  /\ cycles' = cycles + 1
  /\ destroyErr' = {}
  /\ lib' = "loaded"
  /\ UNCHANGED <<i, k, numLocks, mutexes, numMutexes, heap, slot, cb, initError,
                 stats, dynVars>>
  /\ UNCHANGED workVars

\* ClassInit keeping a table pointer that is already set instead of
\* allocating a new table.
ClassInitAllocReuse ==
  /\ pc = "alloc"
  /\ IF mutexes # 0
       THEN /\ numMutexes' = numLocks
            /\ i' = 0
            /\ pc' = "initloop"
            /\ UNCHANGED <<mutexes, heap, slot, stats, initError>>
       ELSE \E a \in {stats.alloc + 1} :
              /\ mutexes' = a
              /\ heap' = heap \cup {a}
              /\ slot' = [n \in 0..(numLocks - 1) |-> "Uninit"]
              /\ numMutexes' = numLocks
              /\ stats' = [stats EXCEPT !.alloc = @ + 1]
              /\ i' = 0
              /\ pc' = "initloop"
              /\ UNCHANGED initError
  /\ UNCHANGED <<k, numLocks, cb, destroyErr, cycles, dynVars, lib>>
  /\ UNCHANGED workVars

\* Lines 29-33: allocate the table and set the count.  Every new[] that
\* succeeds returns a table of its own (stats.alloc + 1).  A failed new[] either
\* throws std::bad_alloc at line 29 (mutexes keeps its old value) or, in a
\* build whose new returns nullptr, reaches the MS_THROW_ERROR of line 31.
ClassInitAlloc ==
  /\ pc = "alloc"
  /\ \/ \E a \in {stats.alloc + 1} :
          /\ mutexes' = a
          /\ heap' = heap \cup {a}
          /\ slot' = [n \in 0..(numLocks - 1) |-> "Uninit"]
          /\ numMutexes' = numLocks
          /\ stats' = [stats EXCEPT !.alloc = @ + 1]
          /\ i' = 0
          /\ pc' = "initloop"
          /\ UNCHANGED initError
     \/ /\ ThrowError("alloc")
        /\ UNCHANGED <<mutexes, heap, slot, numMutexes, stats, i>>
     \/ /\ mutexes' = 0
        /\ ThrowError("alloc")
        /\ UNCHANGED <<heap, slot, numMutexes, stats, i>>
  /\ UNCHANGED <<k, numLocks, cb, destroyErr, cycles, dynVars, lib>>
  /\ UNCHANGED workVars

\* The initialisation loop stopping one slot early.
InitLoopOffByOne == i < numMutexes - 1

\* Line 35: the loop condition of ClassInit.
InitLoopCond == i < numMutexes

\* Lines 35-40: one iteration of the initialisation loop, or its exit.
\* pthread_mutex_init returns 0 or an error number.
ClassInitLoop ==
  /\ pc = "initloop"
  /\ IF InitLoopCond
       THEN \E err \in {0, 1} :
              /\ stats' = [stats EXCEPT !.init[i] = @ + 1]
              /\ IF err # 0
                   THEN /\ ThrowError("mutex_init")
                        /\ UNCHANGED <<slot, i>>
                   ELSE /\ slot' = [slot EXCEPT ![i] = "Idle"]
                        /\ i' = i + 1
                        /\ UNCHANGED <<pc, initError>>
              /\ UNCHANGED k
       ELSE /\ pc' = "register"
            /\ i' = 0
            /\ k' = 0
            /\ UNCHANGED <<slot, stats, initError>>
  /\ UNCHANGED <<numLocks, mutexes, numMutexes, heap, cb, destroyErr, cycles, dynVars, lib>>
  /\ UNCHANGED workVars

\* Lines 42-46: the five registrations, in source order.
ClassInitRegister ==
  /\ pc = "register"
  /\ cb' = [cb EXCEPT ![CallbackNames[k + 1]] = TRUE]
  /\ IF k + 1 = 5
       THEN pc' = "ready" /\ k' = 0
       ELSE pc' = pc /\ k' = k + 1
  /\ UNCHANGED <<i, numLocks, mutexes, numMutexes, heap, slot, initError, stats,
                 destroyErr, cycles, dynVars, lib>>
  /\ UNCHANGED workVars

ClassInit ==
  \/ ClassInitBootstrap
  \/ ClassInitAlloc
  \/ ClassInitLoop
  \/ ClassInitRegister

\* ------------------------------------------------------------- ClassDestroy
\* The embedding process calls ClassDestroy only once the library is
\* quiescent: every worker thread is outside the callbacks and holds nothing.
Quiescent == \A t \in Threads : tpc[t] = "idle"

\* ClassDestroy going on to destroy the mutexes right after
\* ERR_remove_thread_state, before the rest of the library cleanup.
ClassDestroyMutexesFirst ==
  /\ pc \in {"start", "ready"}
  /\ Quiescent
  /\ pc' = "d_loop"
  /\ i' = 0
  /\ lib' = "thread_released"
  /\ UNCHANGED <<k, numLocks, mutexes, numMutexes, heap, slot, cb, initError,
                 stats, destroyErr, cycles, dynVars>>
  /\ UNCHANGED workVars

\* Lines 49-58: entry and ERR_remove_thread_state(nullptr).
ClassDestroyThreadState ==
  /\ pc \in {"start", "ready"}
  /\ Quiescent
  /\ pc' = "d_engine"
  /\ lib' = "thread_released"
  /\ UNCHANGED <<i, k, numLocks, mutexes, numMutexes, heap, slot, cb, initError,
                 stats, destroyErr, cycles, dynVars>>
  /\ UNCHANGED workVars

\* Line 62: ENGINE_cleanup().
ClassDestroyEngine ==
  /\ pc = "d_engine"
  /\ pc' = "d_global"
  /\ lib' = "engine_cleaned"
  /\ UNCHANGED <<i, k, numLocks, mutexes, numMutexes, heap, slot, cb, initError,
                 stats, destroyErr, cycles, dynVars>>
  /\ UNCHANGED workVars

\* Lines 65-67: ERR_free_strings, EVP_cleanup, CRYPTO_cleanup_all_ex_data.
ClassDestroyGlobal ==
  /\ pc = "d_global"
  /\ pc' = "d_comp"
  /\ lib' = "global_cleaned"
  /\ UNCHANGED <<i, k, numLocks, mutexes, numMutexes, heap, slot, cb, initError,
                 stats, destroyErr, cycles, dynVars>>
  /\ UNCHANGED workVars

\* Line 70: sk_SSL_COMP_free(SSL_COMP_get_compression_methods()).
ClassDestroyComp ==
  /\ pc = "d_comp"
  /\ pc' = "d_loop"
  /\ i' = 0
  /\ destroyErr' = {}
  /\ lib' = "comp_freed"
  /\ UNCHANGED <<k, numLocks, mutexes, numMutexes, heap, slot, cb, initError,
                 stats, cycles, dynVars>>
  /\ UNCHANGED workVars

\* The destruction loop running to CRYPTO_num_locks() in the place of
\* numMutexes.
DestroyLoopAllLocks == i < numLocks

\* The destruction loop stopping one slot early.
DestroyLoopOffByOne == i < numMutexes - 1

\* Line 73: the loop condition of ClassDestroy.
DestroyLoopCond == i < numMutexes

\* The destruction loop leaving at the first pthread_mutex_destroy that fails.
ClassDestroyLoopStopOnError ==
  /\ pc = "d_loop"
  /\ IF i < numMutexes
       THEN \E err \in {0, 1} :
              IF err # 0
                THEN /\ stats' = [stats EXCEPT !.destroy[i] = @ + 1,
                                               !.reported = @ + 1]
                     /\ destroyErr' = destroyErr \cup {i}
                     /\ pc' = "d_free"
                     /\ i' = 0
                     /\ UNCHANGED slot
                ELSE /\ stats' = [stats EXCEPT !.destroy[i] = @ + 1,
                                               !.destroyed = @ + 1]
                     /\ slot' = [slot EXCEPT ![i] = "Destroyed"]
                     /\ i' = i + 1
                     /\ UNCHANGED <<pc, destroyErr>>
       ELSE /\ pc' = "d_free"
            /\ i' = 0
            /\ UNCHANGED <<slot, stats, destroyErr>>
  /\ UNCHANGED <<k, numLocks, mutexes, numMutexes, heap, cb, initError, cycles, dynVars, lib>>
  /\ UNCHANGED workVars

\* Lines 73-78: one iteration of the destruction loop, or its exit.  A failed
\* pthread_mutex_destroy leaves the mutex as it was and is reported (MS_ERROR).
ClassDestroyLoop ==
  /\ pc = "d_loop"
  /\ IF DestroyLoopCond
       THEN \E err \in {0, 1} :
              /\ IF err # 0
                   THEN /\ stats' = [stats EXCEPT !.destroy[i] = @ + 1,
                                                  !.reported = @ + 1]
                        /\ destroyErr' = destroyErr \cup {i}
                        /\ UNCHANGED slot
                   ELSE /\ stats' = [stats EXCEPT !.destroy[i] = @ + 1,
                                                  !.destroyed = @ + 1]
                        /\ slot' = [slot EXCEPT ![i] = "Destroyed"]
                        /\ UNCHANGED destroyErr
              /\ i' = i + 1
              /\ UNCHANGED pc
       ELSE /\ pc' = "d_free"
            /\ i' = 0
            /\ UNCHANGED <<slot, stats, destroyErr>>
  /\ UNCHANGED <<k, numLocks, mutexes, numMutexes, heap, cb, initError, cycles, dynVars, lib>>
  /\ UNCHANGED workVars

\* Lines 79-80: delete[] the table when the pointer is not null.  The pointer
\* and the count are left as they are.
ClassDestroyFree ==
  /\ pc = "d_free"
  /\ IF mutexes # 0
       THEN /\ heap' = heap \ {mutexes}
            /\ stats' = [stats EXCEPT !.free = @ + 1]
       ELSE UNCHANGED <<heap, stats>>
  /\ pc' = "unregister"
  /\ k' = 0
  /\ UNCHANGED <<i, numLocks, mutexes, numMutexes, slot, cb, initError,
                 destroyErr, cycles, dynVars, lib>>
  /\ UNCHANGED workVars

\* The resets without that of the static locking callback (line 84).
UnregisteredButLocking(c) ==
  IF c = "locking" THEN cb ELSE [cb EXCEPT ![c] = FALSE]

\* CRYPTO_..._callback(nullptr): callback c is no longer registered.
Unregistered(c) == [cb EXCEPT ![c] = FALSE]

\* Lines 83-87: the five callbacks are reset to nullptr, in source order.
ClassDestroyUnregister ==
  /\ pc = "unregister"
  /\ cb' = Unregistered(CallbackNames[k + 1])
  /\ IF k + 1 = 5
       THEN pc' = "destroyed" /\ k' = 0
       ELSE pc' = pc /\ k' = k + 1
  /\ UNCHANGED <<i, numLocks, mutexes, numMutexes, heap, slot, initError, stats,
                 destroyErr, cycles, dynVars, lib>>
  /\ UNCHANGED workVars

ClassDestroy ==
  \/ ClassDestroyThreadState
  \/ ClassDestroyEngine
  \/ ClassDestroyGlobal
  \/ ClassDestroyComp
  \/ ClassDestroyLoop
  \/ ClassDestroyFree
  \/ ClassDestroyUnregister

\* ------------------------------------------------- the locking callbacks
\* The library runs the callbacks between ClassInit and ClassDestroy, through
\* the pointers it has registered.
Running(c) == pc = "ready" /\ cb[c]

\* The library's side of a lock callback returning: a thread that asked for
\* the lock goes on into its critical section, one that asked for the release
\* has left it.
Returned(t, asked, lock) ==
  IF asked = "lock"
    THEN /\ tpc' = [tpc EXCEPT ![t] = "held"]
         /\ target' = [target EXCEPT ![t] = lock]
    ELSE /\ tpc' = [tpc EXCEPT ![t] = "idle"]
         /\ target' = [target EXCEPT ![t] = NoLock]

\* What the calling thread asked for: a thread outside a critical section
\* asks for the lock, a thread inside one for the release.
Asked(t) == IF tpc[t] = "idle" THEN "lock" ELSE "unlock"

\* LockingFunction releasing every slot of the table, not slot n alone.
LockingFunctionAllSlots(t, mode, n) ==
  /\ IF IsLock(mode)
       THEN /\ tpc' = [tpc EXCEPT ![t] = "blocked"]
            /\ target' = [target EXCEPT ![t] = Static(n)]
            /\ UNCHANGED slot
       ELSE /\ slot' = [j \in DOMAIN slot |-> "Idle"]
            /\ Returned(t, Asked(t), Static(n))
  /\ UNCHANGED <<dynVars, tmp, counter, idOut>>
  /\ UNCHANGED lifeVars

\* Lines 97-118.  pthread_mutex_lock blocks the caller until the mutex is its
\* (MutexLockReturn); pthread_mutex_unlock releases at once.
LockingFunction(t, mode, n) ==
  /\ IF IsLock(mode)
       THEN /\ tpc' = [tpc EXCEPT ![t] = "blocked"]
            /\ target' = [target EXCEPT ![t] = Static(n)]
            /\ UNCHANGED slot
       ELSE /\ slot' = [slot EXCEPT ![n] = "Idle"]
            /\ Returned(t, Asked(t), Static(n))
  /\ UNCHANGED <<dynVars, tmp, counter, idOut>>
  /\ UNCHANGED lifeVars

\* Lines 135-143.  A mutex whose pthread_mutex_init failed holds indeterminate
\* bytes: unlocking it leaves them as they are.
DynLockFunction(t, mode, h) ==
  /\ IF IsLock(mode)
       THEN /\ tpc' = [tpc EXCEPT ![t] = "blocked"]
            /\ target' = [target EXCEPT ![t] = Dynamic(h)]
            /\ UNCHANGED dyn
       ELSE /\ dyn' = [dyn EXCEPT ![h] = IF @ = "Uninit" THEN @ ELSE "Idle"]
            /\ Returned(t, Asked(t), Dynamic(h))
  /\ UNCHANGED <<slot, handleVars, tmp, counter, idOut>>
  /\ UNCHANGED lifeVars

\* pthread_mutex_lock (lines 115 and 140) returns in a blocked thread: the
\* mutex was free and is now locked.  On a mutex that was never initialised
\* the call is undefined: it may block for ever, return at once (EINVAL, which
\* the callback ignores) without having locked anything, or take the bytes
\* for a free mutex and lock it.
MutexLockReturn(t) ==
  /\ pc = "ready"
  /\ tpc[t] = "blocked"
  /\ \/ /\ target[t].kind = "static"
        /\ slot[target[t].id] = "Idle"
        /\ slot' = [slot EXCEPT ![target[t].id] = "Locked"]
        /\ UNCHANGED dyn
     \/ /\ target[t].kind = "dyn"
        /\ dyn[target[t].id] = "Idle"
        /\ dyn' = [dyn EXCEPT ![target[t].id] = "Locked"]
        /\ UNCHANGED slot
     \/ /\ target[t].kind = "dyn"
        /\ dyn[target[t].id] = "Uninit"
        /\ \/ UNCHANGED dyn
           \/ dyn' = [dyn EXCEPT ![target[t].id] = "Locked"]
        /\ UNCHANGED slot
  /\ Returned(t, "lock", target[t])
  /\ UNCHANGED <<handleVars, tmp, done, counter, idOut>>
  /\ UNCHANGED lifeVars

\* The handles the library keeps.
Owned == {owned[x] : x \in 1..Len(owned)}

\* What `new CRYPTO_dynlock_value` returns: a record that is not allocated at
\* the time of the call.  Records are named in the order of their allocation.
NewValue == dstat.new + 1

\* DynCreateFunction handing out one record shared by every caller instead of
\* allocating a new one for each call.
DynCreateShared ==
  /\ Running("dyncreate")
  /\ \/ \E err \in {0, 1} :
          /\ dstat.new < MaxHandles
          /\ dyn' = [dyn EXCEPT ![1] = IF err = 0 THEN "Idle" ELSE "Uninit"]
          /\ dynHeap' = dynHeap \cup {1}
          /\ dstat' = [dstat EXCEPT !.new = @ + 1]
          /\ owned' = Append(owned, 1)
          /\ UNCHANGED pc
     \/ /\ pc' = "aborted"
        /\ UNCHANGED dynVars
  /\ UNCHANGED <<i, k, numLocks, mutexes, numMutexes, heap, slot, cb, initError,
                 stats, destroyErr, cycles, lib>>
  /\ UNCHANGED workVars

\* Lines 120-133.  The result of pthread_mutex_init is not looked at; a failed
\* new ends the process (MS_ABORT, or std::bad_alloc leaving a C callback).
\* The library keeps the handle it is given.
DynCreateFunction ==
  /\ Running("dyncreate")
  /\ \/ \E err \in {0, 1} :
          /\ dstat.new < MaxHandles
          /\ dyn' = [dyn EXCEPT ![NewValue] = IF err = 0 THEN "Idle" ELSE "Uninit"]
          /\ dynHeap' = dynHeap \cup {NewValue}
          /\ dstat' = [dstat EXCEPT !.new = @ + 1]
          /\ owned' = Append(owned, NewValue)
          /\ UNCHANGED pc
     \/ /\ pc' = "aborted"
        /\ UNCHANGED dynVars
  /\ UNCHANGED <<i, k, numLocks, mutexes, numMutexes, heap, slot, cb, initError,
                 stats, destroyErr, cycles, lib>>
  /\ UNCHANGED workVars

\* The handles the library keeps once it has destroyed handle h.
Dropped(h) == SelectSeq(owned, LAMBDA x : x # h)

\* DynDestroyFunction without its `delete v`.
DynDestroyNoDelete(h) ==
  /\ Running("dyndestroy")
  /\ \A t \in Threads : target[t] # Dynamic(h)
  /\ \E err \in {0, 1} :
       IF err = 0
         THEN dstat' = [dstat EXCEPT !.destroy = @ + 1, !.destroyed = @ + 1]
         ELSE dstat' = [dstat EXCEPT !.destroy = @ + 1]
  /\ UNCHANGED <<dyn, dynHeap>>
  /\ owned' = Dropped(h)
  /\ UNCHANGED slot
  /\ UNCHANGED lifeVars
  /\ UNCHANGED workVars

\* Lines 145-151.  The library destroys a handle that no thread holds, waits
\* for or will use again, and forgets it.  The result of pthread_mutex_destroy
\* is not looked at: the record is deleted, and its mutex gone with it,
\* whether or not the call succeeded.
DynDestroyFunction(h) ==
  /\ Running("dyndestroy")
  /\ \A t \in Threads : target[t] # Dynamic(h)
  /\ \E err \in {0, 1} :
       IF err = 0
         THEN dstat' = [dstat EXCEPT !.destroy = @ + 1, !.destroyed = @ + 1,
                                     !.delete = @ + 1]
         ELSE dstat' = [dstat EXCEPT !.destroy = @ + 1, !.delete = @ + 1]
  /\ dyn' = [dyn EXCEPT ![h] = "Freed"]
  /\ dynHeap' = dynHeap \ {h}
  /\ owned' = Dropped(h)
  /\ UNCHANGED slot
  /\ UNCHANGED lifeVars
  /\ UNCHANGED workVars

\* pthread_self() in thread t: the identifier of the calling thread, which no
\* other live thread has.  pthread_t is an unsigned long here, so the cast of
\* line 94 keeps the value.
PthreadSelf(t) == t

\* The callback storing one value for every thread.
SetThreadIdSameForAll(t) ==
  /\ Running("threadid")
  /\ tpc[t] # "blocked"
  /\ idOut' = [idOut EXCEPT ![t] = 1]
  /\ UNCHANGED <<tpc, target, tmp, done, counter, slot, dynVars>>
  /\ UNCHANGED lifeVars

\* Lines 90-95: CRYPTO_THREADID_set_numeric(id, (unsigned long)pthread_self()).
\* A thread calls it while it runs, that is, not while it waits in
\* pthread_mutex_lock.
SetThreadId(t) ==
  /\ Running("threadid")
  /\ tpc[t] # "blocked"
  /\ idOut' = [idOut EXCEPT ![t] = PthreadSelf(t)]
  /\ UNCHANGED <<tpc, target, tmp, done, counter, slot, dynVars>>
  /\ UNCHANGED lifeVars

\* ------------------------------------------------------ the library's calls
\* The modes the library passes: CRYPTO_LOCK or CRYPTO_UNLOCK, alone or
\* together with CRYPTO_READ or CRYPTO_WRITE.
Intents == {0, CRYPTO_READ, CRYPTO_WRITE}
LockModes == {CRYPTO_LOCK + r : r \in Intents}
UnlockModes == {CRYPTO_UNLOCK + r : r \in Intents}

\* A worker thread outside any critical section asks for static slot n.
StaticLock(t) ==
  /\ Running("locking")
  /\ tpc[t] = "idle"
  /\ \E mode \in LockModes, n \in DOMAIN slot : LockingFunction(t, mode, n)
  /\ UNCHANGED done

\* A worker thread releases the static slot it holds.
StaticUnlock(t) ==
  /\ Running("locking")
  /\ tpc[t] = "held"
  /\ target[t].kind = "static"
  /\ \E mode \in UnlockModes : LockingFunction(t, mode, target[t].id)
  /\ UNCHANGED done

\* A worker thread asks for a dynamic lock whose handle the library keeps.
DynLock(t) ==
  /\ Running("dynlock")
  /\ tpc[t] = "idle"
  /\ \E mode \in LockModes, h \in Owned : DynLockFunction(t, mode, h)
  /\ UNCHANGED done

\* A worker thread releases the dynamic lock it holds.
DynUnlock(t) ==
  /\ Running("dynlock")
  /\ tpc[t] = "held"
  /\ target[t].kind = "dyn"
  /\ \E mode \in UnlockModes : DynLockFunction(t, mode, target[t].id)
  /\ UNCHANGED done

Worker(t) ==
  \/ StaticLock(t)
  \/ StaticUnlock(t)
  \/ DynLock(t)
  \/ DynUnlock(t)

Library ==
  \/ \E t \in Threads : Worker(t)
  \/ \E t \in Threads : MutexLockReturn(t)
  \/ DynCreateFunction
  \/ \E h \in Owned : DynDestroyFunction(h)

Next ==
  \/ ClassInit
  \/ ClassDestroy
  \/ Library
  \/ \E t \in Threads : SetThreadId(t)

Spec == Init /\ [][Next]_vars

\* ------------------------------------------- the callbacks between Init and Destroy
\* The library at work after ClassInit: every locking callback, on the static
\* slots and on the dynamic locks.
DynNext == ClassInit \/ Library

DynSpec == Init /\ [][DynNext]_vars

\* ------------------------------------------------------ every mode value
\* The library passing any value of the four mode bits: one with CRYPTO_LOCK
\* set where it wants the lock, one without where it gives the lock back.
AllModes == 0..(CRYPTO_LOCK + CRYPTO_UNLOCK + CRYPTO_READ + CRYPTO_WRITE)
WithLockBit == {mode \in AllModes : BitAnd(mode, CRYPTO_LOCK) = CRYPTO_LOCK}
WithoutLockBit == AllModes \ WithLockBit

ModeStaticLock(t) ==
  /\ Running("locking")
  /\ tpc[t] = "idle"
  /\ \E mode \in WithLockBit, n \in DOMAIN slot : LockingFunction(t, mode, n)
  /\ UNCHANGED done

ModeStaticUnlock(t) ==
  /\ Running("locking")
  /\ tpc[t] = "held"
  /\ target[t].kind = "static"
  /\ \E mode \in WithoutLockBit : LockingFunction(t, mode, target[t].id)
  /\ UNCHANGED done

ModeDynLock(t) ==
  /\ Running("dynlock")
  /\ tpc[t] = "idle"
  /\ \E mode \in WithLockBit, h \in Owned : DynLockFunction(t, mode, h)
  /\ UNCHANGED done

ModeDynUnlock(t) ==
  /\ Running("dynlock")
  /\ tpc[t] = "held"
  /\ target[t].kind = "dyn"
  /\ \E mode \in WithoutLockBit : DynLockFunction(t, mode, target[t].id)
  /\ UNCHANGED done

ModeNext ==
  \/ ClassInit
  \/ \E t \in Threads : ModeStaticLock(t)
  \/ \E t \in Threads : ModeStaticUnlock(t)
  \/ \E t \in Threads : ModeDynLock(t)
  \/ \E t \in Threads : ModeDynUnlock(t)
  \/ \E t \in Threads : MutexLockReturn(t)
  \/ DynCreateFunction
  \/ \E h \in Owned : DynDestroyFunction(h)

ModeSpec == Init /\ [][ModeNext]_vars

\* ------------------------------------------------- the counter scenario
\* Every worker performs MaxOps cycles of Lock(CRYPTO_LOCK, 0), increment of
\* the shared counter (a read, then a write), Lock(CRYPTO_UNLOCK, 0); the
\* process joins the workers before it calls ClassDestroy.
CounterLock(t) ==
  /\ Running("locking")
  /\ tpc[t] = "idle"
  /\ done[t] < MaxOps
  /\ LockingFunction(t, CRYPTO_LOCK, 0)
  /\ UNCHANGED done

CounterRead(t) ==
  /\ pc = "ready"
  /\ tpc[t] = "held"
  /\ tmp' = [tmp EXCEPT ![t] = counter]
  /\ tpc' = [tpc EXCEPT ![t] = "read"]
  /\ UNCHANGED <<target, done, counter, slot, dynVars, idOut>>
  /\ UNCHANGED lifeVars

CounterWrite(t) ==
  /\ pc = "ready"
  /\ tpc[t] = "read"
  /\ counter' = tmp[t] + 1
  /\ tmp' = [tmp EXCEPT ![t] = 0]
  /\ tpc' = [tpc EXCEPT ![t] = "wrote"]
  /\ UNCHANGED <<target, done, slot, dynVars, idOut>>
  /\ UNCHANGED lifeVars

CounterUnlock(t) ==
  /\ Running("locking")
  /\ tpc[t] = "wrote"
  /\ LockingFunction(t, CRYPTO_UNLOCK, 0)
  /\ done' = [done EXCEPT ![t] = @ + 1]

CounterWorker(t) ==
  \/ CounterLock(t)
  \/ MutexLockReturn(t)
  \/ CounterRead(t)
  \/ CounterWrite(t)
  \/ CounterUnlock(t)

AllDone == \A t \in Threads : done[t] = MaxOps

JoinedDestroy == AllDone /\ ClassDestroy

CounterInit == Init /\ numLocks >= 1

CounterNext ==
  \/ ClassInit
  \/ JoinedDestroy
  \/ \E t \in Threads : CounterWorker(t)

\* Every worker that can take a step eventually takes one.
CounterSpec ==
  /\ CounterInit
  /\ [][CounterNext]_vars
  /\ \A t \in Threads : WF_vars(CounterWorker(t))

\* ------------------------------------------- static locks under contention
\* The workers use the static slots only, and a thread that can take a lock
\* or give one back eventually does: the scheduling C2 assumes (a released
\* slot is not taken by other contenders for ever).
LockNext ==
  \/ ClassInit
  \/ ClassDestroy
  \/ \E t \in Threads : StaticLock(t)
  \/ \E t \in Threads : StaticUnlock(t)
  \/ \E t \in Threads : MutexLockReturn(t)

LockSpec ==
  /\ Init
  /\ [][LockNext]_vars
  /\ \A t \in Threads : WF_vars(StaticUnlock(t)) /\ SF_vars(MutexLockReturn(t))

\* ------------------------------------------------ the life cycle of the table
\* ClassInit and ClassDestroy, again and again, with the workers on the static
\* slots and asking for their thread identifiers in between.
LifeNext ==
  \/ LockNext
  \/ \E t \in Threads : SetThreadId(t)

LifeSpec == Init /\ [][LifeNext]_vars

\* -------------------------------------------------------------- properties
\* Thread t is between a completed Lock(LOCK) and its Lock(UNLOCK).
InCS(t) == tpc[t] \in {"held", "read", "wrote"}
Holds(t, lock) == InCS(t) /\ target[t] = lock
BlockedOn(t, lock) == tpc[t] = "blocked" /\ target[t] = lock

\* C1: for every static slot and every dynamic handle, at most one thread is
\* between a completed Lock(LOCK) and its matching Lock(UNLOCK).
C1_MutualExclusion ==
  \A t1, t2 \in Threads :
    (t1 # t2 /\ InCS(t1) /\ InCS(t2)) => target[t1] # target[t2]

\* The step of C2: when thread A holds slot n, thread B is blocked in
\* Lock(LOCK, n) and A's Lock(UNLOCK, n) returns, the slot is free and B's
\* pthread_mutex_lock can return.
C2_ReleaseFrees ==
  \A A, B \in Threads : \A n \in 0..(MaxLocks - 1) :
    (Holds(A, Static(n)) /\ BlockedOn(B, Static(n)) /\ tpc'[A] = "idle")
      => (slot'[n] = "Idle" /\ BlockedOn(B, Static(n))' /\ pc' = "ready")

\* C2: a release by the holder frees the slot for a blocked waiter (the step
\* above), and under the fair scheduling of LockSpec a thread blocked in
\* Lock(LOCK, n) eventually holds slot n.
C2_ReleaseUnblocks ==
  /\ [][C2_ReleaseFrees]_vars
  /\ \A B \in Threads : \A n \in 0..(MaxLocks - 1) :
       BlockedOn(B, Static(n)) ~> Holds(B, Static(n))

\* A waiter has been let in: B holds slot 0 after A, and A waits for it again.
C2_Witness ==
  \E A, B \in Threads :
    /\ A # B
    /\ Holds(B, Static(0))
    /\ BlockedOn(A, Static(0))
    /\ slot[0] = "Locked"

\* C3: in the counter scenario every worker terminates, and once all have
\* terminated the counter equals NumThreads * MaxOps.
C3_CounterTotal ==
  /\ [](AllDone => counter = NumThreads * MaxOps)
  /\ (pc = "ready") ~> AllDone

C3_Witness ==
  /\ AllDone
  /\ pc = "ready"
  /\ cycles = 1
  /\ counter = NumThreads * MaxOps

\* ---------------------------------------------------------- the lifecycle
SlotIds == 0..(MaxLocks - 1)
TableSlots == 0..(numMutexes - 1)
\* An initialised mutex that has not been destroyed.
Live(n) == n \in DOMAIN slot /\ slot[n] \in {"Idle", "Locked"}
InitPcs == {"alloc", "initloop", "register"}
DestroyPcs == {"d_engine", "d_global", "d_comp", "d_loop", "d_free", "unregister"}

RECURSIVE SumTo(_, _)
SumTo(f, n) == IF n < 0 THEN 0 ELSE f[n] + SumTo(f, n - 1)
\* pthread_mutex_destroy calls that failed, over all slots.
DestroyFailures == SumTo(stats.destroy, MaxLocks - 1) - stats.destroyed

\* After a successful ClassInit: one table, exactly numLocks mutexes, each
\* initialised once in this cycle.
PairedInit ==
  pc = "ready" =>
    /\ mutexes # 0
    /\ heap = {mutexes}
    /\ stats.alloc = cycles
    /\ stats.free = cycles - 1
    /\ numMutexes = numLocks
    /\ DOMAIN slot = 0..(numLocks - 1)
    /\ \A n \in SlotIds : stats.init[n] = IF n < numLocks THEN cycles ELSE 0
    /\ \A n \in TableSlots : Live(n)

\* After the ClassDestroy that follows: pthread_mutex_destroy was called once
\* on each of these mutexes and on no other, and the table was freed once.
PairedDestroyCalls ==
  (pc = "destroyed" /\ cycles >= 1) =>
    /\ heap = {}
    /\ stats.free = cycles
    /\ stats.alloc = cycles
    /\ \A n \in SlotIds : stats.destroy[n] = stats.init[n]
    /\ DestroyFailures >= 0

\* C4 as stated: for every N >= 0, ClassInit initialises exactly N mutexes in
\* one table and ClassDestroy destroys each of them exactly once and frees
\* the table once, so that no initialised mutex remains.
C4_ExactPairing ==
  /\ PairedInit
  /\ PairedDestroyCalls
  /\ (pc = "destroyed" /\ cycles >= 1) =>
       /\ \A n \in TableSlots : slot[n] = "Destroyed"
       /\ stats.destroyed = SumTo(stats.init, MaxLocks - 1)

\* C4 as amended: ClassDestroy calls pthread_mutex_destroy exactly once on
\* each of the N mutexes and frees the table once; a mutex remains
\* undestroyed only when its pthread_mutex_destroy failed, and none is
\* destroyed twice.
C4_PairedCalls ==
  /\ PairedInit
  /\ PairedDestroyCalls
  /\ (pc = "destroyed" /\ cycles >= 1) =>
       \A n \in TableSlots :
         /\ n \notin destroyErr => slot[n] = "Destroyed"
         /\ n \in destroyErr => slot[n] = "Idle"

C4_Witness ==
  /\ pc = "destroyed"
  /\ cycles = 1
  /\ numMutexes = MaxLocks
  /\ destroyErr = {}
  /\ \A n \in TableSlots : slot[n] = "Destroyed"

\* C5: (mutexes, numMutexes) is (null, 0) before ClassInit, (table, N) after
\* a successful ClassInit, and (null, 0) again once ClassDestroy has
\* completed.
C5_Lifecycle ==
  /\ (pc = "start") => (mutexes = 0 /\ numMutexes = 0)
  /\ (pc = "ready") => (mutexes # 0 /\ numMutexes = numLocks)
  /\ (pc = "destroyed") => (mutexes = 0 /\ numMutexes = 0)

\* The state a successful ClassInit ends in, whatever came before it: one
\* live table of numLocks mutexes, locked exactly when a worker holds them
\* (none does when ClassInit returns), and the five callbacks registered.
PostInit ==
  /\ (pc = "register") => (Quiescent /\ \A n \in TableSlots : slot[n] = "Idle")
  /\ (pc = "ready") =>
       /\ mutexes # 0
       /\ heap = {mutexes}
       /\ numMutexes = numLocks
       /\ DOMAIN slot = 0..(numLocks - 1)
       /\ \A n \in TableSlots :
            slot[n] = IF \E t \in Threads : Holds(t, Static(n))
                        THEN "Locked" ELSE "Idle"
       /\ \A c \in Callbacks : cb[c]

\* Over the cycles so far every table but the current one was freed once and
\* every mutex of an earlier cycle went through pthread_mutex_destroy once.
CycleCalls ==
  (pc = "ready") =>
    /\ stats.alloc = cycles
    /\ stats.free = cycles - 1
    /\ \A n \in TableSlots :
         /\ stats.init[n] = cycles
         /\ stats.destroy[n] = cycles - 1
    /\ DestroyFailures >= 0

\* C6 as stated: ClassInit; ClassDestroy; ClassInit ends as the first
\* ClassInit did, and over any number of cycles no mutex is leaked or
\* destroyed twice.
C6_Restartable ==
  /\ PostInit
  /\ CycleCalls
  /\ (pc = "ready") => stats.destroyed = SumTo(stats.destroy, MaxLocks - 1)

\* C6 as amended: the same, but a mutex of an earlier cycle may have gone
\* undestroyed when its pthread_mutex_destroy failed, which was reported.
C6_RestartableCalls ==
  /\ PostInit
  /\ CycleCalls
  /\ (pc = "ready") => DestroyFailures = stats.reported

C6_Witness ==
  /\ pc = "ready"
  /\ cycles = 2
  /\ numMutexes = MaxLocks
  /\ stats.reported = 0
  /\ \A n \in TableSlots : slot[n] = "Idle"
  /\ \A c \in Callbacks : cb[c]

\* C7: whenever ClassInit is not in progress, the table pointer is null or
\* every slot 0..numMutexes-1 is initialised and lockable.
C7_NoPartialTable ==
  (pc \notin InitPcs) => (mutexes = 0 \/ \A n \in TableSlots : Live(n))

\* The table exists and every slot is initialised and not destroyed.
TableIntact ==
  /\ mutexes \in heap
  /\ numMutexes = numLocks
  /\ \A n \in TableSlots : Live(n)

\* C8 as stated: whenever the static locking callback is registered, the
\* table exists and every slot is initialised and not destroyed.
C8_RegisteredImpliesIntact == cb["locking"] => TableIntact

\* ClassDestroy is between its first pthread_mutex_destroy (line 75) and its
\* reset of the callbacks (lines 83-87).
InTeardown == pc \in {"d_loop", "d_free", "unregister"}

\* C8 as amended: the same in every state outside the part of ClassDestroy
\* that destroys the mutexes, frees the table and resets the callbacks; in
\* particular in all of ClassInit, during the library cleanup of ClassDestroy
\* and after ClassDestroy has returned.
C8_RegisteredImpliesIntactOutsideTeardown ==
  (cb["locking"] /\ ~InTeardown) => TableIntact

C8_Witness ==
  /\ pc = "d_comp"
  /\ cb["locking"]
  /\ numMutexes = MaxLocks
  /\ TableIntact

\* C9: when the allocation or a pthread_mutex_init fails, ClassInit ends in
\* the error outcome at once, no further slot is initialised and none of the
\* five callbacks is registered.
C9_InitFailureFatal ==
  /\ (pc = "failed") => (initError # "none")
  /\ (initError # "none") =>
       /\ pc = "failed"
       /\ \A c \in Callbacks : ~cb[c]
       /\ (initError = "alloc") =>
            /\ stats.alloc = cycles - 1
            /\ \A n \in SlotIds : stats.init[n] <= cycles - 1
       /\ (initError = "mutex_init") =>
            /\ i \in TableSlots
            /\ stats.init[i] = cycles
            /\ \A n \in TableSlots :
                 /\ n >= i => slot[n] = "Uninit"
                 /\ n > i => stats.init[n] = cycles - 1

C9_Witness ==
  /\ pc = "failed"
  /\ initError = "mutex_init"
  /\ numMutexes = MaxLocks
  /\ i = 0
  /\ slot[MaxLocks - 1] = "Uninit"

\* C10: when pthread_mutex_destroy fails for some slots, ClassDestroy still
\* calls it for every remaining slot, frees the table, resets the five
\* callbacks and returns; each failure is reported and nothing else.
C10_TeardownTolerant ==
  /\ (pc \in DestroyPcs) => ENABLED ClassDestroy
  /\ (pc = "d_loop") => \A n \in TableSlots : n < i => stats.destroy[n] = cycles
  /\ (pc \in {"d_free", "unregister", "destroyed"}) =>
       \A n \in TableSlots : stats.destroy[n] = cycles
  /\ (pc \in {"unregister", "destroyed"}) => heap = {}
  /\ (pc = "destroyed") => \A c \in Callbacks : ~cb[c]
  /\ (pc \in DestroyPcs \cup {"destroyed"}) =>
       /\ initError = "none"
       /\ DestroyFailures = stats.reported

C10_Witness ==
  /\ pc = "destroyed"
  /\ numMutexes = MaxLocks
  /\ destroyErr = {0}
  /\ slot[0] = "Idle"
  /\ slot[MaxLocks - 1] = "Destroyed"
  /\ heap = {}
  /\ stats.reported = 1

\* ------------------------------------------------------- the dynamic locks
\* Thread t takes a step in a lock callback, or in the pthread_mutex_lock it
\* called, on the given lock.
LockStep(t, lock) ==
  /\ tpc'[t] # tpc[t]
  /\ target[t] = lock \/ target'[t] = lock

\* C11: the handles the library keeps from DynCreateFunction are pairwise
\* distinct, each a record of its own with its own mutex; a thread that waits
\* for handle B, which no other thread holds, can get it whatever thread holds
\* any other handle; and a lock or unlock on handle A changes neither the
\* mutex of another handle nor any static slot.
C11_IndependentHandles ==
  /\ [](\A x, y \in 1..Len(owned) : x # y => owned[x] # owned[y])
  /\ [](\A h \in Owned : h \in dynHeap /\ dyn[h] \in {"Uninit", "Idle", "Locked"})
  /\ [](\A t \in Threads : \A B \in Owned :
          (/\ pc = "ready"
           /\ BlockedOn(t, Dynamic(B))
           /\ \A u \in Threads : ~Holds(u, Dynamic(B)))
            => ENABLED MutexLockReturn(t))
  /\ [][\A t \in Threads : \A A \in Handles :
          LockStep(t, Dynamic(A)) =>
            /\ slot' = slot
            /\ \A B \in Handles \ {A} : dyn'[B] = dyn[B]]_vars

\* Two handles are live; one thread holds the first and another thread, which
\* asked for the second meanwhile, holds the second.
C11_Witness ==
  /\ Len(owned) = 2
  /\ owned[1] # owned[2]
  /\ Holds(1, Dynamic(owned[1]))
  /\ Holds(2, Dynamic(owned[2]))
  /\ dyn[owned[1]] = "Locked"
  /\ dyn[owned[2]] = "Locked"

\* The records allocated are those of the handles the library keeps, one
\* each: creations less destructions.
HandleBalance ==
  /\ dynHeap = Owned
  /\ Cardinality(dynHeap) = Len(owned)
  /\ dstat.new - dstat.delete = Len(owned)
  /\ owned = << >> => (dynHeap = {} /\ dstat.delete = dstat.new)

\* C12 as stated: when the library has destroyed handles, each of them once,
\* the mutex of each has been destroyed once and its record released once;
\* the live handles are the creations less the destructions, none when all
\* are destroyed.
C12_DestroyedOnce ==
  /\ HandleBalance
  /\ dstat.destroy = dstat.delete
  /\ dstat.destroyed = dstat.delete

\* C12 as amended: pthread_mutex_destroy has been called once on the mutex of
\* each handle destroyed and its record released once, with the same balance
\* of live handles; the mutex itself is destroyed only when that call
\* succeeded, which DynDestroyFunction does not look at.
C12_DestroyCalledOnce ==
  /\ HandleBalance
  /\ dstat.destroy = dstat.delete
  /\ dstat.destroyed <= dstat.destroy

\* Every handle created has been destroyed, one of them with a
\* pthread_mutex_destroy that failed.
C12_Witness ==
  /\ dstat.new = MaxHandles
  /\ owned = << >>
  /\ dynHeap = {}
  /\ dstat.delete = MaxHandles
  /\ dstat.destroyed = MaxHandles - 1

\* C13: every handle DynCreateFunction has returned holds a mutex that was
\* initialised (Idle when returned, Locked while a thread holds it), also
\* when pthread_mutex_init can fail, in a record that is allocated: a failed
\* allocation returns no handle.
C13_HandleInitialised ==
  \A h \in Owned : h \in dynHeap /\ dyn[h] \in {"Idle", "Locked"}

\* ------------------------------------------------------ the thread identifier
\* C14: the identifier SetThreadId reports for a thread is the same on every
\* call from that thread and differs between any two threads; the callback
\* can always run to its end in a thread that is running, whatever locks are
\* held, and changes no lock, table, handle or callback registration.
C14_ThreadId ==
  /\ [](\A t, u \in Threads :
          (t # u /\ idOut[t] # 0 /\ idOut[u] # 0) => idOut[t] # idOut[u])
  /\ [](\A t \in Threads :
          (Running("threadid") /\ tpc[t] # "blocked") => ENABLED SetThreadId(t))
  /\ [][\A t \in Threads : idOut[t] # 0 => idOut'[t] = idOut[t]]_vars
  /\ [][idOut' # idOut =>
          UNCHANGED <<pc, i, k, mutexes, numMutexes, heap, slot, cb, initError,
                      stats, destroyErr, cycles, lib, dynVars, tpc, target>>]_vars

\* Every thread has its identifier, one of them while it holds slot 0 and
\* another thread waits for that slot.
C14_Witness ==
  /\ \A t \in Threads : idOut[t] # 0
  /\ Holds(1, Static(0))
  /\ BlockedOn(2, Static(0))
  /\ cycles = 2

\* ------------------------------------------------------------ mode decoding
\* The mutex of a lock is free after a release.  (The release of a mutex that
\* was never initialised leaves its bytes as they are.)
Released(lock) ==
  IF lock.kind = "static"
    THEN slot'[lock.id] = "Idle"
    ELSE dyn'[lock.id] = (IF dyn[lock.id] = "Uninit" THEN "Uninit" ELSE "Idle")

C16_StaticLockFrame ==
  /\ [][\A t \in Threads : \A n \in SlotIds :
          LockStep(t, Static(n)) =>
            /\ DOMAIN slot' = DOMAIN slot
            /\ \A j \in DOMAIN slot \ {n} : slot'[j] = slot[j]
            /\ UNCHANGED <<dynVars, pc, mutexes, numMutexes, heap, cb,
                           initError, stats, destroyErr, lib>>]_vars
  /\ [][(pc = "ready" /\ pc' = "ready") =>
          UNCHANGED <<mutexes, numMutexes, heap>>]_vars
  /\ [](pc = "ready" => (numMutexes = numLocks /\ DOMAIN slot = TableSlots))

\* Thread 1 holds slot 0 and thread 2 a dynamic lock; slot 1 is free.
C16_Witness ==
  /\ DOMAIN slot = {0, 1}
  /\ Holds(1, Static(0))
  /\ slot[0] = "Locked"
  /\ slot[1] = "Idle"
  /\ \E h \in Owned : Holds(2, Dynamic(h))
  /\ numMutexes = 2

\* ------------------------------------------------- the order within ClassInit
NoneRegistered == \A c \in Callbacks : ~cb[c]

\* The first x callbacks, in source order, are the registered ones.
RegisteredUpTo(x) == \A y \in 1..5 : cb[CallbackNames[y]] <=> (y <= x)

\* C17: within ClassInit the library is bootstrapped before the table is
\* allocated, the table is allocated before slots 0..N-1 are initialised in
\* turn, and no callback is registered before every slot is initialised; so
\* whenever the locking callback is registered during ClassInit, or ClassInit
\* has failed, the table is whole or no callback is registered at all.
C17_InitOrder ==
  /\ (pc \in InitPcs) => lib = "loaded"
  /\ (pc = "alloc") => (stats.alloc = cycles - 1 /\ NoneRegistered)
  /\ (pc = "initloop") =>
       /\ stats.alloc = cycles
       /\ mutexes \in heap
       /\ numMutexes = numLocks
       /\ \A n \in TableSlots : slot[n] = IF n < i THEN "Idle" ELSE "Uninit"
       /\ NoneRegistered
  /\ (pc = "register") =>
       /\ TableIntact
       /\ \A n \in TableSlots : slot[n] = "Idle" /\ stats.init[n] = cycles
       /\ RegisteredUpTo(k)
  /\ (pc = "failed") => NoneRegistered
  /\ (pc \in InitPcs /\ \E c \in Callbacks : cb[c]) => TableIntact

\* The second ClassInit has registered the thread-identifier and the locking
\* callback, not yet the three of the dynamic locks, over a table of
\* MaxLocks initialised slots.
C17_Witness ==
  /\ pc = "register"
  /\ k = 2
  /\ cycles = 2
  /\ numMutexes = MaxLocks
  /\ cb["locking"]
  /\ ~cb["dyncreate"]

\* ---------------------------------------------- the order within ClassDestroy
AllRegistered == \A c \in Callbacks : cb[c]

\* The order in which the library's global state is set up and cleaned up.
LibOrder ==
  {<<"unloaded", "loaded">>, <<"unloaded", "thread_released">>,
   <<"loaded", "thread_released">>, <<"thread_released", "engine_cleaned">>,
   <<"engine_cleaned", "global_cleaned">>, <<"global_cleaned", "comp_freed">>,
   <<"comp_freed", "loaded">>}

\* C18: ClassDestroy releases the thread's error state, then cleans up the
\* engines, then the global tables, then frees the compression methods; only
\* then does it call pthread_mutex_destroy on slot after slot, then free the
\* table, then reset the callbacks.  While the library cleanup is going on
\* after a ClassInit, the table is whole and the five callbacks registered.
C18_DestroyOrder ==
  /\ [][lib' # lib => <<lib, lib'>> \in LibOrder]_vars
  /\ [](pc \in {"d_engine", "d_global", "d_comp"} =>
          lib \in {"thread_released", "engine_cleaned", "global_cleaned"})
  /\ [](pc \in {"d_loop", "d_free", "unregister", "destroyed"} => lib = "comp_freed")
  /\ []((lib \in {"thread_released", "engine_cleaned", "global_cleaned"}
           /\ mutexes # 0) =>
          (TableIntact /\ AllRegistered
             /\ \A n \in TableSlots : stats.destroy[n] = cycles - 1))
  /\ []((pc = "d_loop" /\ mutexes # 0) =>
          /\ mutexes \in heap
          /\ AllRegistered
          /\ \A n \in TableSlots :
               stats.destroy[n] = IF n < i THEN cycles ELSE cycles - 1)
  /\ []((pc = "d_free" /\ mutexes # 0) =>
          /\ mutexes \in heap
          /\ AllRegistered
          /\ \A n \in TableSlots : stats.destroy[n] = cycles)
  /\ []((pc = "unregister" /\ mutexes # 0) =>
          /\ heap = {}
          /\ \A n \in TableSlots : stats.destroy[n] = cycles
          /\ \A y \in 1..5 : cb[CallbackNames[y]] <=> (y > k))

\* The second ClassDestroy has cleaned up the global tables and is about to
\* free the compression methods: the table of MaxLocks slots is whole and the
\* callbacks registered.
C18_Witness ==
  /\ pc = "d_comp"
  /\ lib = "global_cleaned"
  /\ cycles = 2
  /\ numMutexes = MaxLocks
  /\ TableIntact
  /\ AllRegistered

\* --------------------------------------------------- the life of one mutex
\* The states of the claim: a mutex not yet initialised, Idle, Locked, and
\* destroyed (for a dynamic lock, with its record).
LockState(st) ==
  CASE st \in {"None", "Uninit"} -> "Uninitialized"
    [] st \in {"Destroyed", "Freed"} -> "Destroyed"
    [] OTHER -> st

\* The moves of the claim.
LockMoves ==
  {<<"Uninitialized", "Idle">>, <<"Idle", "Locked">>, <<"Locked", "Idle">>,
   <<"Idle", "Destroyed">>}

\* C19: the mutex of every static slot of a table and of every dynamic lock
\* only moves from Uninitialized to Idle, from Idle to Locked, from Locked to
\* Idle and from Idle to Destroyed; none leaves Destroyed and none is
\* destroyed while Locked.
C19_LockStateMachine ==
  [][/\ \A h \in Handles :
          LockState(dyn'[h]) # LockState(dyn[h]) =>
            <<LockState(dyn[h]), LockState(dyn'[h])>> \in LockMoves
     /\ mutexes' = mutexes =>
          \A n \in DOMAIN slot :
            LockState(slot'[n]) # LockState(slot[n]) =>
              <<LockState(slot[n]), LockState(slot'[n])>> \in LockMoves]_vars

\* ------------------------------------------------ ClassDestroy before ClassInit
\* C20: as long as ClassInit was never called, and so throughout and after a
\* ClassDestroy on the initial state, the table pointer is null and the count
\* 0, no pthread_mutex_destroy was called, nothing was freed, no error was
\* reported and no callback is registered.
C20_DestroyBeforeInit ==
  (cycles = 0) =>
    /\ mutexes = 0
    /\ numMutexes = 0
    /\ heap = {}
    /\ slot = [n \in {} |-> "Uninit"]
    /\ stats = NoStats
    /\ destroyErr = {}
    /\ initError = "none"
    /\ NoneRegistered
    /\ pc \in {"start", "destroyed"} \cup DestroyPcs

\* ClassDestroy has returned and ClassInit was never called, in a library
\* with MaxLocks static locks.
C20_Witness ==
  /\ cycles = 0
  /\ pc = "destroyed"
  /\ lib = "comp_freed"
  /\ numLocks = MaxLocks

====
